---- MODULE Spec2Model ----
(***************************************************************************)
(* Model of asset_manager/file_manager/scripts/backup.py: the S3 bucket    *)
(* enumeration (get_bucket_contents), replication (backup_bucket) and      *)
(* verification (verify_bucket_backup, get_key_less_backup_folder).        *)
(*                                                                         *)
(* Object keys are strings, modelled as sequences of character codes       *)
(* (naturals); code 0 stands for '/'.  ETags are opaque naturals.  A       *)
(* bucket is the sequence of its objects in key order, which is the order  *)
(* in which S3 lists them.  A Python dict is a record [keys, val]: keys is *)
(* the insertion order, val the mapping.                                   *)
(***************************************************************************)
EXTENDS Integers, Sequences, FiniteSets, TLC

VARIABLES
    now,                    \* datetime.now(), in whole seconds
    srcBucket,              \* objects of the source bucket
    dstBucket,              \* objects of the destination bucket
    source_before,          \* source bucket as it was when the operation began
    dest_before,            \* destination bucket as it was when the operation began
    destination_folder,     \* folder argument of verify_bucket_backup / get_bucket_contents
    contentsSrc,            \* list_objects_v2 response for the source bucket
    contentsDst,            \* list_objects_v2 response for the destination bucket
    pc,                     \* position in the operation being run
    key_prefix,             \* backup_bucket: generated prefix
    object_dict,            \* backup_bucket: source snapshot / get_bucket_contents: result
    index,                  \* backup_bucket: number of loop iterations done
    copylog,                \* s3.copy_object calls made, in order
    errlog,                 \* messages passed to log_error, in order
    mails,                  \* send_mail calls made, in order
    backup_folder,          \* run: value returned by backup_bucket
    source_list,            \* verify_bucket_backup: source snapshot
    destination_list,       \* verify_bucket_backup: normalised destination snapshot
    bucket_backup_verified  \* verify_bucket_backup: returned verdict

vars == <<now, srcBucket, dstBucket, source_before, dest_before, destination_folder, contentsSrc,
          contentsDst, pc, key_prefix, object_dict, index, copylog, errlog, mails,
          backup_folder, source_list, destination_list, bucket_backup_verified>>

----------------------------------------------------------------------------
(* Bounds of the model *)

\* largest number of objects in an enumerated small bucket or listing
MaxKeys == 2
\* number of distinct clock values (seconds) a run can start at
MaxTime == 2

(* Program constants *)

\* len(bucket_contents) > 800
WarnThreshold == 800
\* list_objects_v2 returns up to 1000 objects
PageCap == 1000

Times == 1..MaxTime
ETags == {1, 2}

----------------------------------------------------------------------------
(* Strings *)

Min(S) == CHOOSE x \in S : \A y \in S : x <= y

\* str.find: lowest 0-based index at which sub occurs in s, or -1
Find(s, sub) ==
    LET hits == {i \in 0..(Len(s) - Len(sub)) : SubSeq(s, i + 1, i + Len(sub)) = sub}
    IN  IF hits = {} THEN -1 ELSE Min(hits)

\* s[start:]
SliceFrom(s, start) ==
    LET from == IF start >= 0 THEN start
                ELSE IF Len(s) + start >= 0 THEN Len(s) + start ELSE 0
    IN  IF from >= Len(s) THEN <<>> ELSE SubSeq(s, from + 1, Len(s))

StartsWith(s, prefix) ==
    Len(prefix) <= Len(s) /\ SubSeq(s, 1, Len(prefix)) = prefix

\* binary (code point) order of keys, the order of an S3 listing
LexLess(a, b) ==
    \E i \in 1..Len(b) :
        /\ i <= Len(a) + 1
        /\ SubSeq(a, 1, i - 1) = SubSeq(b, 1, i - 1)
        /\ (i = Len(a) + 1 \/ a[i] < b[i])

----------------------------------------------------------------------------
(* Python dict *)

EmptyDict == [keys |-> <<>>, val |-> <<>>]

\* d = {}; for (k, v) in pairs: d[k] = v
\* a key keeps the position of its first insertion and the value of its last
DictFromPairs(pairs) ==
    LET n == Len(pairs)
        first == SelectSeq([i \in 1..n |-> i],
                           LAMBDA i : \A j \in 1..(i - 1) : pairs[j][1] # pairs[i][1])
        last(k) == CHOOSE i \in 1..n :
                       pairs[i][1] = k /\ \A j \in (i + 1)..n : pairs[j][1] # k
    IN  [keys |-> [i \in 1..Len(first) |-> pairs[first[i]][1]],
         val  |-> [k \in {pairs[i][1] : i \in 1..n} |-> pairs[last(k)][2]]]

DictLen(d) == Len(d.keys)

----------------------------------------------------------------------------
(* The object store *)

Object(key, etag) == [Key |-> key, ETag |-> etag]

\* s3.list_objects_v2(Bucket=bucket, Prefix=folder): the objects whose key
\* begins with folder, in key order, at most one page of them
ListObjectsV2(bucket, folder) ==
    LET matching == SelectSeq(bucket, LAMBDA o : StartsWith(o.Key, folder))
    IN  IF Len(matching) > PageCap THEN SubSeq(matching, 1, PageCap) ELSE matching

\* s3.copy_object: the destination object takes the source object's ETag
CopyObject(bucket, key, etag) ==
    SelectSeq(bucket, LAMBDA o : LexLess(o.Key, key))
        \o <<Object(key, etag)>>
        \o SelectSeq(bucket, LAMBDA o : LexLess(key, o.Key))

----------------------------------------------------------------------------
(* Notification side channel.  out = [errlog, mails] *)

Message(kind, key, a, b) == [kind |-> kind, key |-> key, a |-> a, b |-> b]

NoMessage == Message("none", <<>>, 0, 0)

send_mail(out, subject, message) ==
    [out EXCEPT !.mails = Append(@, [subject |-> subject, body |-> message])]

log_error(out, message) ==
    send_mail([out EXCEPT !.errlog = Append(@, message)], "error", message)

\* log_error called once for each message, in order
RECURSIVE log_errors(_, _)
log_errors(out, messages) ==
    IF messages = <<>> THEN out
    ELSE log_errors(log_error(out, Head(messages)), Tail(messages))

----------------------------------------------------------------------------
(* get_bucket_contents, given the listing response *)

\* variant: the warning already fires on reaching the threshold
NearLimitOnReaching(n) == n >= WarnThreshold

NearLimit(n) == n > WarnThreshold

get_bucket_contents(contents, out) ==
    LET bucket_contents ==
            DictFromPairs([i \in 1..Len(contents) |-> <<contents[i].Key, contents[i].ETag>>])
    IN  [bucket_contents |-> bucket_contents,
         out |-> IF NearLimit(DictLen(bucket_contents))
                 THEN log_error(out, Message("near-limit", <<>>, DictLen(bucket_contents), 0))
                 ELSE out]

----------------------------------------------------------------------------
(* backup_bucket *)

\* 'dam-assets-backups/dams-assets '
Namespace == <<7>>

\* datetime.strftime('%y-%m-%d %H:%M:%S'), one character per second of the clock
Strftime(t) == <<t>>

KeyPrefix(t) == Namespace \o Strftime(t) \o <<0>>

\* variant: the copy is written under the source key, outside the backup folder
DestKeyWithoutFolder(prefix, key) == key

DestKey(prefix, key) == prefix \o key

----------------------------------------------------------------------------
(* get_key_less_backup_folder *)

\* variant: the last occurrence of the folder is taken (str.rfind)
get_key_less_backup_folder_rfind(full_path, backup_folder_arg) ==
    LET hits == {i \in 0..(Len(full_path) - Len(backup_folder_arg)) :
                    SubSeq(full_path, i + 1, i + Len(backup_folder_arg)) = backup_folder_arg}
        backup_folder_index == IF hits = {} THEN -1 ELSE CHOOSE x \in hits : \A y \in hits : y <= x
    IN  SliceFrom(full_path, backup_folder_index + Len(backup_folder_arg))

get_key_less_backup_folder(full_path, backup_folder_arg) ==
    LET backup_folder_index == Find(full_path, backup_folder_arg)
    IN  SliceFrom(full_path, backup_folder_index + Len(backup_folder_arg))

----------------------------------------------------------------------------
(* verify_bucket_backup, given the two listing responses *)

\* variant: the destination keys are compared with their backup folder
NormalizeKeepingFolder(dest, folder) == dest

\* lines 103-108: the destination snapshot re-keyed without the backup folder
Normalize(dest, folder) ==
    DictFromPairs([i \in 1..DictLen(dest) |->
        <<get_key_less_backup_folder(dest.keys[i], folder), dest.val[dest.keys[i]]>>])

\* variant: the two ETags are reported in the other order
CheckKeySwapped(src, dest, key) ==
    IF key \notin DOMAIN dest.val
    THEN Message("missing-key", key, 0, 0)
    ELSE IF src.val[key] # dest.val[key]
         THEN Message("checksum-mismatch", key, dest.val[key], src.val[key])
         ELSE NoMessage

\* variant: the KeyError of a missing key is swallowed
CheckKeyIgnoringMissing(src, dest, key) ==
    IF key \notin DOMAIN dest.val
    THEN NoMessage
    ELSE IF src.val[key] # dest.val[key]
         THEN Message("checksum-mismatch", key, src.val[key], dest.val[key])
         ELSE NoMessage

\* one iteration of the per-key loop: the message it logs, or NoMessage
CheckKey(src, dest, key) ==
    IF key \notin DOMAIN dest.val
    THEN Message("missing-key", key, 0, 0)
    ELSE IF src.val[key] # dest.val[key]
         THEN Message("checksum-mismatch", key, src.val[key], dest.val[key])
         ELSE NoMessage

\* variant: the per-key loop also runs after a count mismatch
CompareWithoutShortCircuit(src, dest) ==
    (IF DictLen(src) # DictLen(dest)
     THEN <<Message("count-mismatch", <<>>, DictLen(src), DictLen(dest))>>
     ELSE <<>>)
    \o SelectSeq([i \in 1..DictLen(src) |-> CheckKey(src, dest, src.keys[i])],
                 LAMBDA m : m # NoMessage)

\* the messages logged by the comparison (lines 117-140), in order
Compare(src, dest) ==
    IF DictLen(src) # DictLen(dest)
    THEN <<Message("count-mismatch", <<>>, DictLen(src), DictLen(dest))>>
    ELSE SelectSeq([i \in 1..DictLen(src) |-> CheckKey(src, dest, src.keys[i])],
                   LAMBDA m : m # NoMessage)

\* variant: a differing ETag does not clear the flag
VerdictKeysOnly(src, dest) ==
    IF DictLen(src) # DictLen(dest)
    THEN FALSE
    ELSE \A i \in 1..DictLen(src) : src.keys[i] \in DOMAIN dest.val

\* the value of bucket_backup_verified after the comparison (lines 111, 118, 131, 137)
Verdict(src, dest) ==
    IF DictLen(src) # DictLen(dest)
    THEN FALSE
    ELSE \A i \in 1..DictLen(src) :
            /\ src.keys[i] \in DOMAIN dest.val
            /\ src.val[src.keys[i]] = dest.val[src.keys[i]]

verify_bucket_backup(cSrc, cDst, folder, out) ==
    LET s == get_bucket_contents(cSrc, out)
        d == get_bucket_contents(cDst, s.out)
        dest == Normalize(d.bucket_contents, folder)
        verified == Verdict(s.bucket_contents, dest)
        out1 == log_errors(d.out, Compare(s.bucket_contents, dest))
    IN  [source_list |-> s.bucket_contents,
         destination_list |-> dest,
         verified |-> verified,
         out |-> IF verified THEN send_mail(out1, "success", NoMessage) ELSE out1]

----------------------------------------------------------------------------
(* Inputs *)

\* keys of source objects: plain keys, a key equal to a backup prefix, and a
\* key that contains a backup prefix inside
SrcKeys == {<<1>>, <<2>>, KeyPrefix(1), <<2>> \o KeyPrefix(1) \o <<1>>}

\* keys already in the destination bucket: an unrelated object and an object
\* under the prefix of a run started at second 1
DstKeys == {<<5>>, DestKey(KeyPrefix(1), <<1>>)}

\* keys of a destination listing: backups of the source keys under the prefix
\* of second 1, and keys that do not contain that prefix
RawDstKeys == {DestKey(KeyPrefix(1), k) : k \in SrcKeys} \cup {<<2, 2, 1>>, <<1, 1, 2>>}

SortKeys(S) ==
    CHOOSE s \in [1..Cardinality(S) -> S] :
        \A i, j \in 1..Cardinality(S) : i < j => LexLess(s[i], s[j])

\* the buckets (listings) of at most MaxKeys objects with keys in K
Buckets(K) ==
    UNION { { [i \in 1..Cardinality(S) |-> Object(SortKeys(S)[i], e[SortKeys(S)[i]])] :
                e \in [S -> ETags] } :
            S \in {T \in SUBSET K : Cardinality(T) <= MaxKeys} }

\* a bucket (listing) of n objects with one-character keys under prefix;
\* object number changed, if any, has another ETag
BigBucket(n, prefix, changed) ==
    [i \in 1..n |-> Object(DestKey(prefix, <<i>>), IF i = changed THEN 2 ELSE 1)]

\* <<source size, destination size, changed object>> of the large listings verified
LargeCases ==
    { <<WarnThreshold, WarnThreshold, 0>>,
      <<WarnThreshold + 1, WarnThreshold + 1, 0>>,
      <<WarnThreshold + 1, WarnThreshold + 1, 1>>,
      <<WarnThreshold + 1, WarnThreshold, 0>> }

Idle ==
    /\ key_prefix = <<>>
    /\ object_dict = EmptyDict
    /\ index = 0
    /\ copylog = <<>>
    /\ errlog = <<>>
    /\ mails = <<>>
    /\ backup_folder = <<>>
    /\ source_list = EmptyDict
    /\ destination_list = EmptyDict
    /\ bucket_backup_verified = FALSE

Out == [errlog |-> errlog, mails |-> mails]

----------------------------------------------------------------------------
(* run: backup_bucket, then verify_bucket_backup with the returned prefix *)

Init ==
    /\ now \in Times
    /\ srcBucket \in Buckets(SrcKeys)
    /\ dstBucket \in Buckets(DstKeys)
    /\ source_before = srcBucket
    /\ dest_before = dstBucket
    /\ destination_folder = <<>>
    /\ contentsSrc = <<>>
    /\ contentsDst = <<>>
    /\ pc = "idle"
    /\ Idle

\* backup_bucket, lines 56-60
BackupStart ==
    /\ pc = "idle"
    /\ LET contents == ListObjectsV2(srcBucket, <<>>)
           g == get_bucket_contents(contents, Out)
       IN  /\ contentsSrc' = contents
           /\ object_dict' = g.bucket_contents
           /\ errlog' = g.out.errlog
           /\ mails' = g.out.mails
    /\ key_prefix' = KeyPrefix(now)
    /\ index' = 0
    /\ pc' = "copy"
    /\ UNCHANGED <<now, srcBucket, dstBucket, source_before, dest_before, destination_folder, contentsDst,
                   copylog, backup_folder, source_list, destination_list,
                   bucket_backup_verified>>

CopyCall(key, ok) == [src |-> key, dst |-> DestKey(key_prefix, key), ok |-> ok]

SourceETag(key) == srcBucket[CHOOSE i \in 1..Len(srcBucket) : srcBucket[i].Key = key].ETag

\* one iteration of the loop in which s3.copy_object succeeds, lines 62-74
CopyOk ==
    /\ pc = "copy"
    /\ index < DictLen(object_dict)
    /\ LET key == object_dict.keys[index + 1]
       IN  /\ dstBucket' = CopyObject(dstBucket, DestKey(key_prefix, key), SourceETag(key))
           /\ copylog' = Append(copylog, CopyCall(key, TRUE))
    /\ index' = index + 1
    /\ UNCHANGED <<now, srcBucket, source_before, dest_before, destination_folder, contentsSrc, contentsDst,
                   pc, key_prefix, object_dict, errlog, mails, backup_folder, source_list,
                   destination_list, bucket_backup_verified>>

\* variant: the ClientError ends the loop
CopyClientErrorAborting ==
    /\ pc = "copy"
    /\ index < DictLen(object_dict)
    /\ LET key == object_dict.keys[index + 1]
           out == log_error(Out, Message("copy-error", key, 0, 0))
       IN  /\ copylog' = Append(copylog, CopyCall(key, FALSE))
           /\ errlog' = out.errlog
           /\ mails' = out.mails
    /\ index' = DictLen(object_dict)
    /\ UNCHANGED <<now, srcBucket, dstBucket, source_before, dest_before, destination_folder, contentsSrc,
                   contentsDst, pc, key_prefix, object_dict, backup_folder, source_list,
                   destination_list, bucket_backup_verified>>

\* one iteration of the loop in which s3.copy_object raises ClientError, lines 62-67, 76-77
CopyClientError ==
    /\ pc = "copy"
    /\ index < DictLen(object_dict)
    /\ LET key == object_dict.keys[index + 1]
           out == log_error(Out, Message("copy-error", key, 0, 0))
       IN  /\ copylog' = Append(copylog, CopyCall(key, FALSE))
           /\ errlog' = out.errlog
           /\ mails' = out.mails
    /\ index' = index + 1
    /\ UNCHANGED <<now, srcBucket, dstBucket, source_before, dest_before, destination_folder, contentsSrc,
                   contentsDst, pc, key_prefix, object_dict, backup_folder, source_list,
                   destination_list, bucket_backup_verified>>

\* the loop is over: return key_prefix, lines 79-81 and 279
BackupReturn ==
    /\ pc = "copy"
    /\ index = DictLen(object_dict)
    /\ backup_folder' = key_prefix
    /\ pc' = "verify"
    /\ UNCHANGED <<now, srcBucket, dstBucket, source_before, dest_before, destination_folder, contentsSrc,
                   contentsDst, key_prefix, object_dict, index, copylog, errlog, mails,
                   source_list, destination_list, bucket_backup_verified>>

\* verify_bucket_backup(source, destination, backup_folder), lines 280-281
VerifyBackup ==
    /\ pc = "verify"
    /\ LET cSrc == ListObjectsV2(srcBucket, <<>>)
           cDst == ListObjectsV2(dstBucket, backup_folder)
           r == verify_bucket_backup(cSrc, cDst, backup_folder, Out)
       IN  /\ contentsSrc' = cSrc
           /\ contentsDst' = cDst
           /\ source_list' = r.source_list
           /\ destination_list' = r.destination_list
           /\ bucket_backup_verified' = r.verified
           /\ errlog' = r.out.errlog
           /\ mails' = r.out.mails
    /\ destination_folder' = backup_folder
    /\ pc' = "done"
    /\ UNCHANGED <<now, srcBucket, dstBucket, source_before, dest_before, key_prefix, object_dict, index,
                   copylog, backup_folder>>

Next ==
    \/ BackupStart
    \/ CopyOk
    \/ CopyClientError
    \/ BackupReturn
    \/ VerifyBackup

Spec == Init /\ [][Next]_vars

----------------------------------------------------------------------------
(* verify_bucket_backup called on enumerated listings: the two responses of
   list_objects_v2 are the inputs.  The destination response ranges over the
   listings of RawDstKeys, so it may hold keys in which the folder does not
   occur, the case get_key_less_backup_folder tests for at line 88. *)

InitVerify ==
    /\ now = 1
    /\ srcBucket = <<>>
    /\ dstBucket = <<>>
    /\ source_before = <<>>
    /\ dest_before = <<>>
    /\ \/ /\ destination_folder \in {KeyPrefix(t) : t \in Times}
          /\ contentsSrc \in Buckets(SrcKeys)
          /\ contentsDst \in Buckets(RawDstKeys)
       \/ /\ destination_folder = KeyPrefix(1)
          /\ \E c \in LargeCases :
                /\ contentsSrc = BigBucket(c[1], <<>>, 0)
                /\ contentsDst = BigBucket(c[2], destination_folder, c[3])
    /\ pc = "call"
    /\ Idle

VerifyCall ==
    /\ pc = "call"
    /\ LET r == verify_bucket_backup(contentsSrc, contentsDst, destination_folder, Out)
       IN  /\ source_list' = r.source_list
           /\ destination_list' = r.destination_list
           /\ bucket_backup_verified' = r.verified
           /\ errlog' = r.out.errlog
           /\ mails' = r.out.mails
    /\ pc' = "done"
    /\ UNCHANGED <<now, srcBucket, dstBucket, source_before, dest_before, destination_folder, contentsSrc,
                   contentsDst, key_prefix, object_dict, index, copylog, backup_folder>>

NextVerify == VerifyCall

SpecVerify == InitVerify /\ [][NextVerify]_vars

----------------------------------------------------------------------------
(* get_bucket_contents called on a bucket *)

NearCap == {WarnThreshold - 1, WarnThreshold, WarnThreshold + 1, PageCap, PageCap + 1}

InitEnum ==
    /\ now = 1
    /\ \/ /\ srcBucket \in Buckets(SrcKeys)
          /\ destination_folder \in {<<>>, <<2>>, KeyPrefix(1)}
       \/ /\ \E n \in NearCap : srcBucket = BigBucket(n, <<>>, 0)
          /\ destination_folder \in {<<>>, <<2>>}
    /\ dstBucket = <<>>
    /\ source_before = srcBucket
    /\ dest_before = <<>>
    /\ contentsSrc = <<>>
    /\ contentsDst = <<>>
    /\ pc = "call"
    /\ Idle

EnumCall ==
    /\ pc = "call"
    /\ LET contents == ListObjectsV2(srcBucket, destination_folder)
           g == get_bucket_contents(contents, Out)
       IN  /\ contentsSrc' = contents
           /\ object_dict' = g.bucket_contents
           /\ errlog' = g.out.errlog
           /\ mails' = g.out.mails
    /\ pc' = "done"
    /\ UNCHANGED <<now, srcBucket, dstBucket, source_before, dest_before, destination_folder, contentsDst,
                   key_prefix, index, copylog, backup_folder, source_list,
                   destination_list, bucket_backup_verified>>

NextEnum == EnumCall

SpecEnum == InitEnum /\ [][NextEnum]_vars

----------------------------------------------------------------------------
(* Vocabulary of the properties *)

Done == pc = "done"

DiscrepancyKinds == {"count-mismatch", "missing-key", "checksum-mismatch"}

\* the discrepancies recorded by the verification, in order
Discrepancies == SelectSeq(errlog, LAMBDA m : m.kind \in DiscrepancyKinds)

ErrorMails == SelectSeq(mails, LAMBDA m : m.subject = "error")

SuccessMails == SelectSeq(mails, LAMBDA m : m.subject = "success")

NearLimitWarnings == SelectSeq(errlog, LAMBDA m : m.kind = "near-limit")

Indices(seq) == 1..Len(seq)

KeysOf(listing) == {listing[i].Key : i \in Indices(listing)}

\* a key with the leading folder cut off
Stripped(key, folder) == SubSeq(key, Len(folder) + 1, Len(key))

\* every key of the destination listing begins with the folder
UnderFolder == \A i \in Indices(contentsDst) : StartsWith(contentsDst[i].Key, destination_folder)

\* the destination listing, stripped of the folder, has exactly the source's
\* keys, each with the source's checksum
SnapshotsMatch ==
    /\ UnderFolder
    /\ {Stripped(k, destination_folder) : k \in KeysOf(contentsDst)} = KeysOf(contentsSrc)
    /\ \A i \in Indices(contentsDst) : \A j \in Indices(contentsSrc) :
            Stripped(contentsDst[i].Key, destination_folder) = contentsSrc[j].Key
                => contentsDst[i].ETag = contentsSrc[j].ETag

\* number of enumerations of the verification whose snapshot exceeds the threshold
LargeSnapshots ==
    (IF Len(contentsSrc) * 100 > 80 * PageCap THEN 1 ELSE 0)
        + (IF Len(contentsDst) * 100 > 80 * PageCap THEN 1 ELSE 0)

SrcKeySet == DOMAIN source_list.val

DstKeySet == DOMAIN destination_list.val

\* number of recorded discrepancies of a kind about a key
CountFor(kind, key) ==
    Cardinality({i \in Indices(Discrepancies) :
                    Discrepancies[i].kind = kind /\ Discrepancies[i].key = key})

----------------------------------------------------------------------------
(* C1, as stated: when the destination listing under the prefix has, after
   stripping the prefix, exactly the source keys with equal checksums, the
   verification returns true, records no discrepancy and emits no error
   notification. *)
C1_AsStated ==
    (Done /\ SnapshotsMatch) =>
        /\ bucket_backup_verified
        /\ Discrepancies = <<>>
        /\ ErrorMails = <<>>

(* C1, amended: on matching snapshots the verification returns true, records
   no discrepancy and sends one success notification; the only error
   notifications are the near-limit warnings, one for each enumeration whose
   snapshot exceeds 80% of the page cap, hence none for smaller snapshots. *)
C1_SoundnessUpToNearLimit ==
    (Done /\ SnapshotsMatch) =>
        /\ bucket_backup_verified
        /\ Discrepancies = <<>>
        /\ Len(SuccessMails) = 1
        /\ Len(ErrorMails) = LargeSnapshots
        /\ \A i \in Indices(ErrorMails) : ErrorMails[i].body.kind = "near-limit"

C1_Witness ==
    /\ Done
    /\ SnapshotsMatch
    /\ Len(contentsSrc) = MaxKeys
    /\ bucket_backup_verified

(* C2: when the source snapshot and the normalised destination snapshot have
   different numbers of keys, exactly one discrepancy is recorded, a
   count-mismatch with both counts, and the verdict is false. *)
C2_CountMismatchShortCircuit ==
    (Done /\ Cardinality(SrcKeySet) # Cardinality(DstKeySet)) =>
        /\ Discrepancies =
              <<Message("count-mismatch", <<>>, Cardinality(SrcKeySet), Cardinality(DstKeySet))>>
        /\ ~bucket_backup_verified
        /\ SuccessMails = <<>>

C2_Witness ==
    /\ Done
    /\ Cardinality(SrcKeySet) # Cardinality(DstKeySet)
    /\ SrcKeySet \ DstKeySet # {}
    /\ \E k \in SrcKeySet \cap DstKeySet : source_list.val[k] # destination_list.val[k]

(* C3: with identical key sets and exactly one key whose destination checksum
   differs, the verdict is false and the one discrepancy recorded is a
   checksum-mismatch with that key, the source checksum and the destination
   checksum. *)
C3_ChecksumMismatch ==
    (Done /\ SrcKeySet = DstKeySet) =>
        \A k \in SrcKeySet :
            {x \in SrcKeySet : source_list.val[x] # destination_list.val[x]} = {k} =>
                /\ ~bucket_backup_verified
                /\ Discrepancies =
                      <<Message("checksum-mismatch", k,
                                source_list.val[k], destination_list.val[k])>>

C3_Witness ==
    /\ Done
    /\ SrcKeySet = DstKeySet
    /\ Cardinality(SrcKeySet) > 1
    /\ Cardinality({x \in SrcKeySet : source_list.val[x] # destination_list.val[x]}) = 1

(* C4, as stated: every source key absent from the normalised destination has
   exactly one missing-key discrepancy. *)
C4_AsStated ==
    Done => \A k \in SrcKeySet \ DstKeySet : CountFor("missing-key", k) = 1

(* C4, amended: when the source and the normalised destination have the same
   number of keys, every source key absent from the normalised destination
   has exactly one missing-key discrepancy, and the verdict is false. *)
C4_MissingKeyOnEqualCounts ==
    (Done /\ Cardinality(SrcKeySet) = Cardinality(DstKeySet)) =>
        \A k \in SrcKeySet \ DstKeySet :
            /\ CountFor("missing-key", k) = 1
            /\ ~bucket_backup_verified

C4_Witness ==
    /\ Done
    /\ Cardinality(SrcKeySet) = Cardinality(DstKeySet)
    /\ SrcKeySet \ DstKeySet # {}
    /\ SrcKeySet \cap DstKeySet # {}

(* C8, as stated: a destination key in which the prefix is not found is
   recorded as a discrepancy and contributes nothing to the normalised
   destination snapshot, and the verdict is false. *)
C8_AsStated ==
    LET wellFormed == {k \in KeysOf(contentsDst) : Find(k, destination_folder) # -1}
    IN  (Done /\ wellFormed # KeysOf(contentsDst)) =>
            /\ ~bucket_backup_verified
            /\ Discrepancies # <<>>
            /\ DstKeySet = {Stripped(k, destination_folder) : k \in wellFormed}

(* C9: the verdict is true exactly when no discrepancy was recorded, which is
   exactly when the normalised destination equals the source as a mapping;
   one success notification is sent when the verdict is true and none
   otherwise; every recorded discrepancy has its own error notification. *)
C9_VerdictExact ==
    Done =>
        /\ bucket_backup_verified <=> (Discrepancies = <<>>)
        /\ bucket_backup_verified <=> (destination_list.val = source_list.val)
        /\ Len(SuccessMails) = (IF bucket_backup_verified THEN 1 ELSE 0)
        /\ LET sent == SelectSeq(ErrorMails, LAMBDA m : m.body.kind \in DiscrepancyKinds)
           IN  [i \in Indices(sent) |-> sent[i].body] = Discrepancies

C9_Witness ==
    /\ Done
    /\ ~bucket_backup_verified
    /\ Len(Discrepancies) > 1
    /\ \E i \in Indices(Discrepancies) : Discrepancies[i].kind = "checksum-mismatch"

(* C5: whichever copies fail, once backup_bucket has returned one copy has
   been attempted for every key of the source snapshot, in the snapshot's
   order and once each, every failed copy has its own message on the error
   channel, and the value returned is the generated prefix. *)
C5_PartialFailureContinuation ==
    (pc \in {"verify", "done"}) =>
        /\ [i \in Indices(copylog) |-> copylog[i].src] = object_dict.keys
        /\ {copylog[i].src : i \in Indices(copylog)} = KeysOf(srcBucket)
        /\ Len(copylog) = Len(srcBucket)
        /\ LET failed == SelectSeq(copylog, LAMBDA c : ~c.ok)
               logged == SelectSeq(errlog, LAMBDA m : m.kind = "copy-error")
           IN  [i \in Indices(logged) |-> logged[i].key] = [i \in Indices(failed) |-> failed[i].src]
        /\ backup_folder = Namespace \o Strftime(now) \o <<0>>

C5_Witness ==
    /\ pc = "verify"
    /\ Len(copylog) > 1
    /\ ~copylog[1].ok
    /\ copylog[Len(copylog)].ok

(* C6: one call of get_bucket_contents logs exactly one near-limit warning
   when the snapshot has more than 80% of the page cap and nothing otherwise;
   the snapshot returned is the listing's key -> ETag mapping either way. *)
C6_NearLimitWarning ==
    Done =>
        /\ Len(NearLimitWarnings) = (IF DictLen(object_dict) * 100 > 80 * PageCap THEN 1 ELSE 0)
        /\ errlog = NearLimitWarnings
        /\ Len(mails) = Len(errlog)
        /\ DOMAIN object_dict.val = KeysOf(contentsSrc)
        /\ \A i \in Indices(contentsSrc) :
              object_dict.val[contentsSrc[i].Key] = contentsSrc[i].ETag
        /\ DictLen(object_dict) = Len(contentsSrc)
        /\ Len(contentsSrc) <= PageCap

C6_Witness ==
    /\ Done
    /\ DictLen(object_dict) = WarnThreshold + 1
    /\ Len(NearLimitWarnings) = 1

(* C7: every destination key written by backup_bucket is the generated prefix
   followed by the source key, and get_key_less_backup_folder gives the
   source key back from it, also for a key that contains the prefix and for
   the empty key. *)
C7_PrefixRoundTrip ==
    (pc # "idle") =>
        /\ key_prefix = Namespace \o Strftime(now) \o <<0>>
        /\ \A i \in Indices(copylog) :
              /\ copylog[i].dst = key_prefix \o copylog[i].src
              /\ get_key_less_backup_folder(copylog[i].dst, key_prefix) = copylog[i].src
              /\ copylog[i].ok => copylog[i].dst \in KeysOf(dstBucket)
        /\ \A k \in SrcKeys \cup {<<>>} :
              get_key_less_backup_folder(key_prefix \o k, key_prefix) = k

C7_Witness ==
    \E i \in Indices(copylog) :
        /\ copylog[i].ok
        /\ Find(copylog[i].src, key_prefix) # -1

\* no object was under the generated prefix when the backup began
FreshFolder ==
    \A i \in Indices(dest_before) : ~StartsWith(dest_before[i].Key, backup_folder)

(* C10: the source bucket is never changed; when it fits one listing page and
   nothing was under the generated prefix beforehand, backup_bucket followed by
   verify_bucket_backup with the returned prefix gives the verdict true if
   every copy succeeded and false if a copy failed. *)
C10_ReplicateThenVerify ==
    /\ srcBucket = source_before
    /\ (Done /\ FreshFolder /\ Len(srcBucket) <= PageCap) =>
          (bucket_backup_verified <=> \A i \in Indices(copylog) : copylog[i].ok)

C10_Witness ==
    /\ Done
    /\ FreshFolder
    /\ dest_before # <<>>
    /\ \E i \in Indices(copylog) : ~copylog[i].ok
    /\ \E i \in Indices(copylog) : copylog[i].ok
    /\ ~bucket_backup_verified

====
